---- MODULE Spec2Model ----
(***************************************************************************)
(* cc-mcp-admin (src/src/main.rs): aggregation of MCP server records from  *)
(* ~/.claude.json and the per-project .mcp.json files, the equivalence     *)
(* check, the source selection of `add`, and the read-modify-write of the  *)
(* global registry by `add` and `remove`.                                  *)
(*                                                                         *)
(* Strings the code searches, replaces or orders (project paths,           *)
(* arguments, --from patterns) are sequences of one-character strings.     *)
(* Strings the code only compares for equality (names, commands, urls)     *)
(* are TLA+ strings.                                                       *)
(***************************************************************************)
EXTENDS Integers, Sequences, FiniteSets, TLC

VARIABLES regStatus, doc, overrides, last, lastWrite, writes, pair, race

vars == <<regStatus, doc, overrides, last, lastWrite, writes, pair, race>>

----------------------------------------------------------------------------
(* Strings                                                                 *)

\* Byte values of the characters used: Rust orders str by bytes.
CharCodes ==
    [c \in {"-", ".", "/", "<", ">", "C", "E", "J", "O", "P", "R", "T",
            "a", "b", "c", "d", "j", "m", "n", "o", "p", "s", "v", "z"} |->
        CASE c = "-" -> 45 [] c = "." -> 46 [] c = "/" -> 47 [] c = "<" -> 60
          [] c = ">" -> 62 [] c = "C" -> 67 [] c = "E" -> 69 [] c = "J" -> 74
          [] c = "O" -> 79 [] c = "P" -> 80 [] c = "R" -> 82 [] c = "T" -> 84
          [] c = "a" -> 97 [] c = "b" -> 98 [] c = "c" -> 99 [] c = "d" -> 100
          [] c = "j" -> 106 [] c = "m" -> 109 [] c = "n" -> 110 [] c = "o" -> 111
          [] c = "p" -> 112 [] c = "s" -> 115 [] c = "v" -> 118 [] c = "z" -> 122]
CharCode(c) == CharCodes[c]

\* a.cmp(b) == Less, for str: lexicographic on bytes, a proper prefix first.
RECURSIVE StrLess(_, _)
StrLess(a, b) ==
    IF b = <<>> THEN FALSE
    ELSE IF a = <<>> THEN TRUE
    ELSE IF CharCode(Head(a)) < CharCode(Head(b)) THEN TRUE
    ELSE IF CharCode(Head(a)) > CharCode(Head(b)) THEN FALSE
    ELSE StrLess(Tail(a), Tail(b))

StrLeq(a, b) == a = b \/ StrLess(a, b)

\* pat occurs in s at position i (1-based).
MatchAt(s, pat, i) ==
    /\ i + Len(pat) - 1 <= Len(s)
    /\ SubSeq(s, i, i + Len(pat) - 1) = pat

\* str::contains(pat)
Contains(s, pat) == \E i \in 1..(Len(s) + 1) : MatchAt(s, pat, i)

\* str::replace(from, to): every non-overlapping match, left to right.
RECURSIVE ReplaceFrom(_, _, _, _)
ReplaceFrom(s, from, to, i) ==
    IF i > Len(s) THEN <<>>
    ELSE IF MatchAt(s, from, i)
         THEN to \o ReplaceFrom(s, from, to, i + Len(from))
         ELSE <<s[i]>> \o ReplaceFrom(s, from, to, i + 1)

RECURSIVE Interleave(_, _)
Interleave(s, to) ==
    IF s = <<>> THEN to ELSE to \o <<Head(s)>> \o Interleave(Tail(s), to)

\* An empty pattern matches at every character boundary.
Replace(s, from, to) ==
    IF from = <<>> THEN Interleave(s, to) ELSE ReplaceFrom(s, from, to, 1)

\* The placeholder of normalize_args, "<PROJECT>".
Placeholder == <<"<", "P", "R", "O", "J", "E", "C", "T", ">">>

\* The file name ".mcp.json".
McpJsonName == <<".", "m", "c", "p", ".", "j", "s", "o", "n">>

\* PathBuf::from(project_path).join(".mcp.json")
JoinMcpJson(project_path) ==
    IF project_path = <<>> THEN McpJsonName
    ELSE IF project_path[Len(project_path)] = "/" THEN project_path \o McpJsonName
    ELSE project_path \o <<"/">> \o McpJsonName

\* Index of the last "/" among the first k characters of a path, 0 when none.
RECURSIVE LastSlashIn(_, _)
LastSlashIn(path, k) ==
    IF k = 0 THEN 0 ELSE IF path[k] = "/" THEN k ELSE LastSlashIn(path, k - 1)
LastSlash(path) == LastSlashIn(path, Len(path))

\* mcp_path.parent() as a string: the path without its last component.
ParentOf(path) ==
    LET k == LastSlash(path)
    IN IF k = 0 THEN <<>>
       ELSE IF k = 1 THEN <<"/">>
       ELSE SubSeq(path, 1, k - 1)

----------------------------------------------------------------------------
(* Maps (HashMap, JSON objects): functions with a finite domain            *)

EmptyMap == [k \in {} |-> FALSE]

MapPut(m, key, val) ==
    [k \in (DOMAIN m) \cup {key} |-> IF k = key THEN val ELSE m[k]]

MapRemove(m, key) == [k \in (DOMAIN m) \ {key} |-> m[k]]

\* HashMap::extend: the entries of m2 win on a key collision.
MapExtend(m1, m2) ==
    [k \in (DOMAIN m1) \cup (DOMAIN m2) |-> IF k \in DOMAIN m2 THEN m2[k] ELSE m1[k]]

\* The orders in which a HashMap of these keys may be iterated.
IterOrders(keys) ==
    {o \in [1..Cardinality(keys) -> keys] : \A i, j \in DOMAIN o : o[i] = o[j] => i = j}

----------------------------------------------------------------------------
(* Records                                                                 *)

\* Option::None of an Option<String> field, JSON null.
None == "<none>"

\* struct McpServer, as deserialized: fields the struct does not name are dropped.
ParseServer(j) ==
    [server_type |-> j.type, command |-> j.command, url |-> j.url,
     args |-> j.args, env |-> j.env]

\* serde_json::to_value(&server): the struct's five fields and nothing else.
NoExtra == "<no-extra>"
ToValue(server) ==
    [type |-> server.server_type, command |-> server.command, url |-> server.url,
     args |-> server.args, env |-> server.env, extra |-> NoExtra]

\* mcpServers of a ProjectConfig or McpJsonFile: HashMap<String, McpServer>.
ParseServers(m) == [n \in DOMAIN m |-> ParseServer(m[n])]

\* load_claude_json: None when the file is missing or does not deserialize;
\* an absent "projects" or "mcpServers" key deserializes to an empty map.
load_claude_json(status, d) ==
    IF status # "ok"
    THEN [some |-> FALSE, projects |-> EmptyMap]
    ELSE [some |-> TRUE,
          projects |-> [p \in DOMAIN d.projects |->
                           [mcp_servers |-> ParseServers(d.projects[p].mcpServers)]]]

\* The .mcp.json file at a path; ov maps a project directory to its file.
FileAt(ov, mcp_path) ==
    IF ParentOf(mcp_path) \in DOMAIN ov
    THEN ov[ParentOf(mcp_path)]
    ELSE [status |-> "nofile", mcpServers |-> EmptyMap]

\* find_mcp_json_files: the .mcp.json that exists in each project of the registry,
\* in the iteration order of the projects map.
RECURSIVE FindIn(_, _)
FindIn(ov, order) ==
    IF order = <<>> THEN <<>>
    ELSE LET mcp_path == JoinMcpJson(Head(order))
             rest == FindIn(ov, Tail(order))
         IN IF FileAt(ov, mcp_path).status # "nofile" THEN <<mcp_path>> \o rest ELSE rest

find_mcp_json_files(status, d, ov, order) ==
    IF load_claude_json(status, d).some THEN FindIn(ov, order) ELSE <<>>

\* The entries pushed for one name by the loop over ~/.claude.json.
RECURSIVE GlobalPushes(_, _, _)
GlobalPushes(projects, order, name) ==
    IF order = <<>> THEN <<>>
    ELSE LET project_path == Head(order)
             rest == GlobalPushes(projects, Tail(order), name)
         IN IF name \in DOMAIN projects[project_path].mcp_servers
            THEN <<[server |-> projects[project_path].mcp_servers[name],
                    source_project |-> project_path]>> \o rest
            ELSE rest

\* The entries pushed for one name by the loop over the .mcp.json files;
\* a file that does not parse is skipped.
RECURSIVE OverridePushes(_, _, _)
OverridePushes(ov, mcp_files, name) ==
    IF mcp_files = <<>> THEN <<>>
    ELSE LET mcp_path == Head(mcp_files)
             file == FileAt(ov, mcp_path)
             rest == OverridePushes(ov, Tail(mcp_files), name)
         IN IF file.status = "ok" /\ name \in DOMAIN file.mcpServers
            THEN <<[server |-> ParseServer(file.mcpServers[name]),
                    source_project |-> ParentOf(mcp_path)]>> \o rest
            ELSE rest

\* SortBySource leaving the entries in the order they were pushed.
SortBySourceSkipped(entries) == entries

\* entries.sort_by(|a, b| a.source_project.cmp(&b.source_project)): a stable sort.
RECURSIVE SortBySource(_)
SortBySource(entries) ==
    IF entries = <<>> THEN <<>>
    ELSE LET n == Len(entries)
             e == entries[n]
             sorted == SortBySource(SubSeq(entries, 1, n - 1))
         IN SelectSeq(sorted, LAMBDA x : ~StrLess(e.source_project, x.source_project))
            \o <<e>>
            \o SelectSeq(sorted, LAMBDA x : StrLess(e.source_project, x.source_project))

\* The names declared anywhere the aggregator reads.
DeclaredNames(projects, ov, mcp_files) ==
    UNION {DOMAIN projects[p].mcp_servers : p \in DOMAIN projects}
    \cup UNION {IF FileAt(ov, mcp_files[i]).status = "ok"
                THEN DOMAIN FileAt(ov, mcp_files[i]).mcpServers ELSE {}
                : i \in DOMAIN mcp_files}

\* collect_all_mcp_servers; order1 and order2 are the iteration orders of the two
\* HashMaps of projects it walks (its own and that of find_mcp_json_files).
collect_all_mcp_servers(status, d, ov, order1, order2) ==
    LET claude_json == load_claude_json(status, d)
        projects == claude_json.projects
        mcp_files == find_mcp_json_files(status, d, ov, order2)
    IN [name \in DeclaredNames(projects, ov, mcp_files) |->
           SortBySource(GlobalPushes(projects, order1, name)
                        \o OverridePushes(ov, mcp_files, name))]

\* get_current_project_mcp_servers reading the local .mcp.json only.
get_current_project_mcp_servers_local(status, d, ov, cwd) ==
    LET file == FileAt(ov, JoinMcpJson(cwd))
    IN IF file.status = "ok" THEN ParseServers(file.mcpServers) ELSE EmptyMap

\* get_current_project_mcp_servers: the registry's entry of the working directory,
\* overlaid with the working directory's .mcp.json.
get_current_project_mcp_servers(status, d, ov, cwd) ==
    LET claude_json == load_claude_json(status, d)
        fromRegistry == IF claude_json.some /\ cwd \in DOMAIN claude_json.projects
                        THEN claude_json.projects[cwd].mcp_servers
                        ELSE EmptyMap
        file == FileAt(ov, JoinMcpJson(cwd))
    IN IF file.status = "ok"
       THEN MapExtend(fromRegistry, ParseServers(file.mcpServers))
       ELSE fromRegistry

\* normalize_args leaving the args as they are.
normalize_args_raw(args, project_path) == args

\* normalize_args
normalize_args(args, project_path) ==
    [i \in DOMAIN args |-> Replace(args[i], project_path, Placeholder)]

\* configs_differ
configs_differ(entries) ==
    IF Len(entries) <= 1 THEN FALSE
    ELSE LET first == entries[1]
             first_args == normalize_args(first.server.args, first.source_project)
         IN \E i \in 2..Len(entries) :
               LET e == entries[i]
                   args == normalize_args(e.server.args, e.source_project)
               IN \/ e.server.command # first.server.command
                  \/ e.server.url # first.server.url
                  \/ args # first_args
                  \/ e.server.env # first.server.env

----------------------------------------------------------------------------
(* add and remove: selection, path rewriting, the registry document        *)

NoHint == [some |-> FALSE, pattern |-> <<>>]
Hint(pattern) == [some |-> TRUE, pattern |-> pattern]

\* SelectEntry without the check that several records differ.
SelectEntryNoGate(entries, from) ==
    IF from.some
    THEN LET hits == {i \in DOMAIN entries :
                         Contains(entries[i].source_project, from.pattern)}
         IN IF hits = {}
            THEN [kind |-> "NoMatchingSource", index |-> 0]
            ELSE [kind |-> "ok", index |-> CHOOSE i \in hits : \A j \in hits : i <= j]
    ELSE [kind |-> "ok", index |-> 1]

\* SelectEntry taking the last match of the pattern, not the first.
SelectEntryLastMatch(entries, from) ==
    IF from.some
    THEN LET hits == {i \in DOMAIN entries :
                         Contains(entries[i].source_project, from.pattern)}
         IN IF hits = {}
            THEN [kind |-> "NoMatchingSource", index |-> 0]
            ELSE [kind |-> "ok", index |-> CHOOSE i \in hits : \A j \in hits : j <= i]
    ELSE IF Len(entries) > 1 /\ configs_differ(entries)
         THEN [kind |-> "AmbiguousSource", index |-> 0]
         ELSE [kind |-> "ok", index |-> 1]

\* add_mcp_server, the selection of the entry to copy: with --from, the first entry
\* whose source_project contains the pattern; without, the first entry unless
\* there are several and they differ.
SelectEntry(entries, from) ==
    IF from.some
    THEN LET hits == {i \in DOMAIN entries :
                         Contains(entries[i].source_project, from.pattern)}
         IN IF hits = {}
            THEN [kind |-> "NoMatchingSource", index |-> 0]
            ELSE [kind |-> "ok", index |-> CHOOSE i \in hits : \A j \in hits : i <= j]
    ELSE IF Len(entries) > 1 /\ configs_differ(entries)
         THEN [kind |-> "AmbiguousSource", index |-> 0]
         ELSE [kind |-> "ok", index |-> 1]

\* RewriteArgs replacing only the first occurrence of the source's path.
RewriteArgsFirstOnly(server, source_project, cwd_str) ==
    [server EXCEPT !.args =
        [i \in DOMAIN server.args |->
            IF Contains(server.args[i], source_project)
            THEN LET at == CHOOSE k \in 1..Len(server.args[i]) :
                               /\ MatchAt(server.args[i], source_project, k)
                               /\ \A j \in 1..(k - 1) :
                                     ~MatchAt(server.args[i], source_project, j)
                 IN SubSeq(server.args[i], 1, at - 1) \o cwd_str
                    \o SubSeq(server.args[i], at + Len(source_project),
                              Len(server.args[i]))
            ELSE server.args[i]]]

\* RewriteArgs copying the args as they are.
RewriteArgsKept(server, source_project, cwd_str) == server

\* add_mcp_server, the rewriting of the copied server's args to the working directory.
RewriteArgs(server, source_project, cwd_str) ==
    [server EXCEPT !.args =
        [i \in DOMAIN server.args |->
            IF Contains(server.args[i], source_project)
            THEN Replace(server.args[i], source_project, cwd_str)
            ELSE server.args[i]]]

\* A project entry as add creates it: { "mcpServers": {} }.
NoOther == "<no-other>"
NewProject == [other |-> NoOther, hasMcp |-> TRUE, mcpServers |-> EmptyMap]

\* InstallDoc replacing the working directory's entry by a new one.
InstallDocFresh(json, cwd_str, name, server) ==
    [json EXCEPT !.hasProjects = TRUE,
                 !.projects = MapPut(json.projects, cwd_str,
                                     [NewProject EXCEPT !.mcpServers =
                                         MapPut(EmptyMap, name, ToValue(server))])]

\* add_mcp_server, the update of the parsed document.
InstallDoc(json, cwd_str, name, server) ==
    LET j1 == IF ~json.hasProjects
              THEN [json EXCEPT !.hasProjects = TRUE, !.projects = EmptyMap]
              ELSE json
        j2 == IF cwd_str \notin DOMAIN j1.projects
              THEN [j1 EXCEPT !.projects = MapPut(j1.projects, cwd_str, NewProject)]
              ELSE j1
        j3 == IF ~j2.projects[cwd_str].hasMcp
              THEN [j2 EXCEPT !.projects[cwd_str].hasMcp = TRUE,
                              !.projects[cwd_str].mcpServers = EmptyMap]
              ELSE j2
    IN [j3 EXCEPT !.projects[cwd_str].mcpServers =
           MapPut(j3.projects[cwd_str].mcpServers, name, ToValue(server))]

\* remove_mcp_server, the update of the parsed document.
UninstallDoc(json, cwd_str, name) ==
    IF /\ json.hasProjects
       /\ cwd_str \in DOMAIN json.projects
       /\ json.projects[cwd_str].hasMcp
    THEN [json EXCEPT !.projects[cwd_str].mcpServers =
             MapRemove(json.projects[cwd_str].mcpServers, name)]
    ELSE json

\* What one invocation did: the command line, how it ended, what it aggregated,
\* the entry add copied and the server it wrote, the registry document before it.
Outcome(cmd, name, from, cwd, outcome, exit, wrote, all, chosen, installed, pre) ==
    [cmd |-> cmd, name |-> name, from |-> from, cwd |-> cwd, outcome |-> outcome,
     exit |-> exit, wrote |-> wrote, all |-> all, chosen |-> chosen,
     installed |-> installed, pre |-> pre]

ExitOk == 0
ExitError == 1
ExitPanic == 101

\* add_mcp_server, given what its call of collect_all_mcp_servers returned
AddOutcome(status, d, ov, name, from, cwd, all_servers) ==
    LET current_servers == get_current_project_mcp_servers(status, d, ov, cwd)
        Ends(outcome, exit) ==
            Outcome("add", name, from, cwd, outcome, exit, FALSE, all_servers,
                    <<>>, <<>>, d)
    IN IF name \in DOMAIN current_servers THEN Ends("AlreadyEnabled", ExitOk)
       ELSE IF name \notin DOMAIN all_servers THEN Ends("NameNotFound", ExitError)
       ELSE LET entries == all_servers[name]
                sel == SelectEntry(entries, from)
            IN IF sel.kind # "ok" THEN Ends(sel.kind, ExitError)
               ELSE IF status # "ok" THEN Ends("RegistryUnreadable", ExitPanic)
               ELSE LET entry == entries[sel.index]
                        server == RewriteArgs(entry.server, entry.source_project, cwd)
                    IN Outcome("add", name, from, cwd, "Added", ExitOk, TRUE,
                               all_servers, <<entry>>, <<server>>, d)

\* RemoveOutcome without the check of the local .mcp.json.
RemoveOutcomeUnchecked(status, d, ov, name, cwd) ==
    LET current_servers == get_current_project_mcp_servers(status, d, ov, cwd)
        Ends(outcome, exit, wrote) ==
            Outcome("remove", name, NoHint, cwd, outcome, exit, wrote, EmptyMap,
                    <<>>, <<>>, d)
    IN IF name \notin DOMAIN current_servers THEN Ends("NotEnabled", ExitError, FALSE)
       ELSE IF status # "ok" THEN Ends("RegistryUnreadable", ExitPanic, FALSE)
       ELSE Ends("Removed", ExitOk, TRUE)

\* remove_mcp_server
RemoveOutcome(status, d, ov, name, cwd) ==
    LET current_servers == get_current_project_mcp_servers(status, d, ov, cwd)
        file == FileAt(ov, JoinMcpJson(cwd))
        Ends(outcome, exit, wrote) ==
            Outcome("remove", name, NoHint, cwd, outcome, exit, wrote, EmptyMap,
                    <<>>, <<>>, d)
    IN IF name \notin DOMAIN current_servers THEN Ends("NotEnabled", ExitError, FALSE)
       ELSE IF file.status = "ok" /\ name \in DOMAIN file.mcpServers
            THEN Ends("OverrideNotRemovable", ExitOk, FALSE)
       ELSE IF status # "ok" THEN Ends("RegistryUnreadable", ExitPanic, FALSE)
       ELSE Ends("Removed", ExitOk, TRUE)

\* list_mcp_servers, given what its call of collect_all_mcp_servers returned; the
\* working directory only marks lines of the listing.
ListOutcome(d, all_servers) ==
    Outcome("list", "", NoHint, <<>>,
            IF DOMAIN all_servers = {} THEN "NoServers" ELSE "Listed",
            ExitOk, FALSE, all_servers, <<>>, <<>>, d)

\* show_mcp_server, given what its call of collect_all_mcp_servers returned
ShowOutcome(d, name, all_servers) ==
    IF name \in DOMAIN all_servers
    THEN Outcome("show", name, NoHint, <<>>, "Shown", ExitOk, FALSE, all_servers,
                 <<>>, <<>>, d)
    ELSE Outcome("show", name, NoHint, <<>>, "NameNotFound", ExitError, FALSE,
                 all_servers, <<>>, <<>>, d)

----------------------------------------------------------------------------
(* The files the model starts from                                         *)

\* Project directories: "/a", its subdirectory "/a/b", and "/c".
PathA == <<"/", "a">>
PathAB == <<"/", "a", "/", "b">>
PathC == <<"/", "c">>
Projects == {PathA, PathAB, PathC}

\* The server name the commands are run for, a second name the files declare,
\* and the --from patterns tried: "b" is in one project path, "a" in two, "c" in one.
Names == {"foo"}
Patterns == {<<"b">>, <<"a">>, <<"c">>}

\* At most this many declarations of "foo" in the files the model starts from.
MaxDecl == 2

\* Arguments: "<p>/d", "<p>-<p>" (the path twice) and "-v".
DataArg(p) == p \o <<"/", "d">>
PairArg(p) == p \o <<"-">> \o p
VerboseArg == <<"-", "v">>

ServerJson(command, url, args, env, extra) ==
    [type |-> IF url = None THEN "stdio" ELSE "http", command |-> command,
     url |-> url, args |-> args, env |-> env, extra |-> extra]

\* Declarations of "foo": a command on the project's own data directory, another
\* command with the project's path twice in one argument, a command on the data
\* directory of "/a", and a url with an environment.
OwnPathServer(p) == ServerJson("run", None, <<DataArg(p), VerboseArg>>, EmptyMap, NoExtra)
OtherCommandServer(p) ==
    ServerJson("run-v2", None, <<DataArg(p), PairArg(p)>>, EmptyMap, "timeout")
FixedPathServer == ServerJson("run", None, <<DataArg(PathA), VerboseArg>>, EmptyMap, NoExtra)
UrlServer == ServerJson(None, "http://h", <<>>, [KEY |-> "v"], NoExtra)

BarServer == ServerJson("bar-cmd", None, <<>>, EmptyMap, "disabled")

\* A registry entry of a project: fields this program does not know, and the
\* mcpServers key absent or present.
BareProject == [other |-> "history", hasMcp |-> FALSE, mcpServers |-> EmptyMap]
ProjectWith(servers) == [other |-> "history", hasMcp |-> TRUE, mcpServers |-> servers]

\* The registry entries a project may start with; none at all for "/a/b" and "/c".
ProjectJsons(p) ==
    IF p = PathA
    THEN {ProjectWith([bar |-> BarServer]),
          ProjectWith([bar |-> BarServer, foo |-> OwnPathServer(p)]),
          ProjectWith([bar |-> BarServer, foo |-> OtherCommandServer(p)])}
    ELSE IF p = PathAB
    THEN {ProjectWith([bar |-> BarServer]),
          ProjectWith([bar |-> BarServer, foo |-> OwnPathServer(p)]),
          ProjectWith([foo |-> FixedPathServer])}
    ELSE {BareProject,
          ProjectWith([foo |-> OwnPathServer(p)]),
          ProjectWith([bar |-> BarServer, foo |-> UrlServer])}

KeySets == {ks \in SUBSET Projects : PathA \in ks}

\* ~/.claude.json as a document: its unknown top-level fields and its projects.
Docs ==
    {[unknown |-> "userID", hasProjects |-> FALSE, projects |-> EmptyMap]}
    \cup {[unknown |-> "userID", hasProjects |-> TRUE, projects |-> m] :
            m \in UNION {{f \in [ks -> UNION {ProjectJsons(p) : p \in ks}] :
                             \A p \in ks : f[p] \in ProjectJsons(p)}
                         : ks \in KeySets}}

\* The content the model keeps for a registry file that is missing or unparseable.
NoDoc == [unknown |-> "userID", hasProjects |-> FALSE, projects |-> EmptyMap]

\* The .mcp.json a project may start with: none, an unparseable one, or one
\* declaring "foo".
NoFile == [status |-> "nofile", mcpServers |-> EmptyMap]
BadFile == [status |-> "bad", mcpServers |-> EmptyMap]
OverrideFiles(p) ==
    IF p = PathA
    THEN {NoFile, [status |-> "ok", mcpServers |-> [foo |-> OtherCommandServer(p)]]}
    ELSE IF p = PathAB
    THEN {NoFile, BadFile, [status |-> "ok", mcpServers |-> [foo |-> OwnPathServer(p)]]}
    ELSE {NoFile}

OverrideSets ==
    {ov \in [Projects -> UNION {OverrideFiles(p) : p \in Projects}] :
        \A p \in Projects : ov[p] \in OverrideFiles(p)}

\* The number of declarations of "foo" in the files.
FooDecls(d, ov) ==
    Cardinality({p \in DOMAIN d.projects : "foo" \in DOMAIN d.projects[p].mcpServers})
    + Cardinality({p \in DOMAIN ov : "foo" \in DOMAIN ov[p].mcpServers})

NoPair == [entries |-> <<>>, compared |-> FALSE, differ |-> FALSE]
NoRace == [pc |-> <<"none", "none">>]

\* The invocation that last wrote the registry, if any.
NoWrite == [cmd |-> "none", name |-> "", cwd |-> <<>>]
WriteOf(out) == [cmd |-> out.cmd, name |-> out.name, cwd |-> out.cwd]

NoOutcome(d) ==
    Outcome("none", "", NoHint, <<>>, "none", ExitOk, FALSE, EmptyMap, <<>>, <<>>, d)

Init ==
    /\ regStatus \in {"ok", "missing", "unparseable"}
    /\ doc \in Docs
    /\ regStatus # "ok" => doc = NoDoc
    /\ overrides \in OverrideSets
    /\ FooDecls(doc, overrides) <= MaxDecl
    /\ last = NoOutcome(doc)
    /\ lastWrite = NoWrite
    /\ writes = 0
    /\ pair = NoPair
    /\ race = NoRace

----------------------------------------------------------------------------
(* One invocation of the program at a time: it runs, then its process exits *)

\* add and remove are run until the registry has been written this many times.
MaxWrites == 2

\* No invocation is running.
Idle == last.cmd = "none"

\* The keys of the projects map as load_claude_json returns it.
ProjectKeys == DOMAIN load_claude_json(regStatus, doc).projects

\* What collect_all_mcp_servers may return on the files as they are: one result
\* for each iteration order of the two project maps it walks.
Aggregations ==
    {collect_all_mcp_servers(regStatus, doc, overrides, order1, order2) :
        order1 \in IterOrders(ProjectKeys), order2 \in IterOrders(ProjectKeys)}

\* main, Commands::List
List ==
    /\ Idle
    /\ \E all_servers \in Aggregations : last' = ListOutcome(doc, all_servers)
    /\ UNCHANGED <<regStatus, doc, overrides, lastWrite, writes, pair, race>>

\* main, Commands::Show and the bare-name shorthand
Show ==
    /\ Idle
    /\ \E name \in Names, all_servers \in Aggregations :
          last' = ShowOutcome(doc, name, all_servers)
    /\ UNCHANGED <<regStatus, doc, overrides, lastWrite, writes, pair, race>>

\* main, Commands::Add, run in the directory cwd
Add ==
    /\ Idle
    /\ writes < MaxWrites
    /\ \E name \in Names, from \in {NoHint} \cup {Hint(h) : h \in Patterns},
          cwd \in Projects, all_servers \in Aggregations :
          LET out == AddOutcome(regStatus, doc, overrides, name, from, cwd, all_servers)
          IN /\ last' = out
             /\ doc' = IF out.wrote
                       THEN InstallDoc(doc, cwd, name, out.installed[1])
                       ELSE doc
             /\ lastWrite' = IF out.wrote THEN WriteOf(out) ELSE lastWrite
             /\ writes' = IF out.wrote THEN writes + 1 ELSE writes
    /\ UNCHANGED <<regStatus, overrides, pair, race>>

\* main, Commands::Remove, run in the directory cwd
Remove ==
    /\ Idle
    /\ writes < MaxWrites
    /\ \E name \in Names, cwd \in Projects :
          LET out == RemoveOutcome(regStatus, doc, overrides, name, cwd)
          IN /\ last' = out
             /\ doc' = IF out.wrote THEN UninstallDoc(doc, cwd, name) ELSE doc
             /\ lastWrite' = IF out.wrote THEN WriteOf(out) ELSE lastWrite
             /\ writes' = IF out.wrote THEN writes + 1 ELSE writes
    /\ UNCHANGED <<regStatus, overrides, pair, race>>

\* The process ends: main returns, process::exit, or a panic unwinds.
Exit ==
    /\ ~Idle
    /\ last' = NoOutcome(doc)
    /\ UNCHANGED <<regStatus, doc, overrides, lastWrite, writes, pair, race>>

Next == List \/ Show \/ Add \/ Remove \/ Exit

Spec == Init /\ [][Next]_vars

----------------------------------------------------------------------------
(* configs_differ on two records of one name, as list and add call it      *)

\* The args of the records compared: at most this many.
MaxArgs == 2

\* Argument strings: the project paths, a path under "/a", and "-v".
ArgStrings == {PathA, PathAB, PathC, DataArg(PathA), VerboseArg}
ArgLists == UNION {[1..n -> ArgStrings] : n \in 0..MaxArgs}

\* The first record, and the records of another project compared with it.
FirstServers ==
    {[server_type |-> "stdio", command |-> "run", url |-> None, args |-> a,
      env |-> EmptyMap] : a \in ArgLists}
SecondServers ==
    FirstServers
    \cup {[server_type |-> "stdio", command |-> "run-v2", url |-> None, args |-> a,
           env |-> EmptyMap] : a \in ArgLists}
    \cup {[server_type |-> "stdio", command |-> "run", url |-> None, args |-> a,
           env |-> [KEY |-> "v"]] : a \in ArgLists}

\* The entries of a name declared by two projects, as collect_all_mcp_servers
\* returns them: sorted by source_project.
PairInit ==
    /\ \E p1, p2 \in Projects, s1 \in FirstServers, s2 \in SecondServers :
          /\ p1 # p2
          /\ pair = [entries |-> SortBySource(<<[server |-> s2, source_project |-> p2],
                                               [server |-> s1, source_project |-> p1]>>),
                     compared |-> FALSE, differ |-> FALSE]
    /\ regStatus = "ok"
    /\ doc = NoDoc
    /\ overrides = [p \in Projects |-> NoFile]
    /\ last = NoOutcome(NoDoc)
    /\ lastWrite = NoWrite
    /\ writes = 0
    /\ race = NoRace

\* list_mcp_servers and add_mcp_server: configs_differ(entries)
Compare ==
    /\ ~pair.compared
    /\ pair' = [pair EXCEPT !.compared = TRUE, !.differ = configs_differ(pair.entries)]
    /\ UNCHANGED <<regStatus, doc, overrides, last, lastWrite, writes, race>>

PairNext == Compare

PairSpec == PairInit /\ [][PairNext]_vars

----------------------------------------------------------------------------
(* Two invocations at once: each reads the registry, then writes it back   *)

\* The invocations: add of a name into "/a/b" or "/c", remove of a name from "/a".
RaceCommands ==
    {[cmd |-> "add", name |-> n, cwd |-> c] : n \in {"foo", "bar"}, c \in {PathAB, PathC}}
    \cup {[cmd |-> "remove", name |-> n, cwd |-> PathA] : n \in {"foo", "bar"}}

\* The registry they start from: "/a" declares both names; "/a/b" and "/c" have
\* no entry, or one without servers.
RaceDocs ==
    {[unknown |-> "userID", hasProjects |-> TRUE,
      projects |-> MapPut(EmptyMap, PathA,
                          ProjectWith([bar |-> BarServer, foo |-> OwnPathServer(PathA)]))],
     [unknown |-> "userID", hasProjects |-> TRUE,
      projects |-> [p \in Projects |->
                       IF p = PathA
                       THEN ProjectWith([bar |-> BarServer, foo |-> OwnPathServer(PathA)])
                       ELSE BareProject]]}

Procs == {1, 2}
Other(i) == IF i = 1 THEN 2 ELSE 1

\* Two invocations with different targets (project, name), not yet started.
RaceInit ==
    /\ regStatus = "ok"
    /\ doc \in RaceDocs
    /\ overrides = [p \in Projects |-> NoFile]
    /\ last = NoOutcome(NoDoc)
    /\ lastWrite = NoWrite
    /\ writes = 0
    /\ pair = NoPair
    /\ \E c1, c2 \in RaceCommands :
          /\ <<c1.cwd, c1.name>> # <<c2.cwd, c2.name>>
          /\ race = [pc |-> <<"start", "start">>,
                     cmd |-> <<c1, c2>>,
                     server |-> <<BarServer, BarServer>>,
                     json |-> <<doc, doc>>,
                     outcome |-> <<"none", "none">>,
                     afterOther |-> <<FALSE, FALSE>>]

\* add_mcp_server lines 400-466, remove_mcp_server lines 514-543: the checks and
\* the selection, on the files as they are now. An invocation that would not
\* write ends here.
RaceResolve(i) ==
    /\ race.pc[i] = "start"
    /\ \E all_servers \in Aggregations :
          LET c == race.cmd[i]
              out == IF c.cmd = "add"
                     THEN AddOutcome(regStatus, doc, overrides, c.name, NoHint, c.cwd,
                                     all_servers)
                     ELSE RemoveOutcome(regStatus, doc, overrides, c.name, c.cwd)
          IN race' = [race EXCEPT
                         !.pc[i] = IF out.wrote THEN "resolved" ELSE "done",
                         !.outcome[i] = IF out.wrote THEN "none" ELSE out.outcome,
                         !.server[i] = IF out.installed # <<>>
                                       THEN ToValue(out.installed[1]) ELSE @,
                         !.afterOther[i] = (race.pc[Other(i)] = "done")]
    /\ UNCHANGED <<regStatus, doc, overrides, last, lastWrite, writes, pair>>

\* add_mcp_server lines 469-472, remove_mcp_server lines 546-549: the registry is
\* read and parsed as a document.
RaceRead(i) ==
    /\ race.pc[i] = "resolved"
    /\ race' = [race EXCEPT !.pc[i] = "read", !.json[i] = doc]
    /\ UNCHANGED <<regStatus, doc, overrides, last, lastWrite, writes, pair>>

\* add_mcp_server lines 474-502, remove_mcp_server lines 551-567: the document
\* read is updated and written back, and success is reported.
RaceWrite(i) ==
    /\ race.pc[i] = "read"
    /\ LET c == race.cmd[i]
       IN /\ doc' = IF c.cmd = "add"
                    THEN InstallDoc(race.json[i], c.cwd, c.name,
                                    ParseServer(race.server[i]))
                    ELSE UninstallDoc(race.json[i], c.cwd, c.name)
          /\ race' = [race EXCEPT !.pc[i] = "done",
                                  !.outcome[i] = IF c.cmd = "add" THEN "Added"
                                                 ELSE "Removed"]
    /\ UNCHANGED <<regStatus, overrides, last, lastWrite, writes, pair>>

Resolve == \E i \in Procs : RaceResolve(i)
Read == \E i \in Procs : RaceRead(i)
Write == \E i \in Procs : RaceWrite(i)

RaceNext == Resolve \/ Read \/ Write

RaceSpec == RaceInit /\ [][RaceNext]_vars

----------------------------------------------------------------------------
(* What the files declare, read off the files directly                     *)

DataNames == {"foo", "bar"}

\* The registry document d declares name under project p.
RegistryDeclares(d, p, name) ==
    /\ regStatus = "ok"
    /\ p \in DOMAIN d.projects
    /\ name \in DOMAIN d.projects[p].mcpServers

\* The .mcp.json of project p parses and declares name.
OverrideDeclares(p, name) ==
    /\ overrides[p].status = "ok"
    /\ name \in DOMAIN overrides[p].mcpServers

\* The aggregator reads the .mcp.json of the projects the registry d names.
OverrideAggregated(d, p, name) ==
    /\ regStatus = "ok"
    /\ p \in DOMAIN d.projects
    /\ OverrideDeclares(p, name)

\* The projects with a declaration of name that the aggregator reads.
Declaring(d, name) ==
    {p \in Projects : RegistryDeclares(d, p, name) \/ OverrideAggregated(d, p, name)}

\* The declaration of name by project p that comes first: the registry's if there
\* is one, else that of the .mcp.json.
FirstDeclaration(d, p, name) ==
    IF RegistryDeclares(d, p, name)
    THEN ParseServer(d.projects[p].mcpServers[name])
    ELSE ParseServer(overrides[p].mcpServers[name])

\* name is effective in project p: declared by the registry's entry of p or by
\* the .mcp.json of p.
Effective(d, p, name) == RegistryDeclares(d, p, name) \/ OverrideDeclares(p, name)

\* The smallest path of a non-empty set of paths.
MinPath(ps) == CHOOSE p \in ps : \A q \in ps : StrLeq(p, q)

\* The last invocation was an add whose selection of a source ran.
SelectionRan ==
    /\ last.cmd = "add"
    /\ ~Effective(last.pre, last.cwd, last.name)
    /\ last.name \in DOMAIN last.all

\* The last invocation failed with the given error and changed nothing.
FailedWith(outcome) ==
    /\ last.outcome = outcome
    /\ last.exit # ExitOk
    /\ ~last.wrote
    /\ doc = last.pre

\* The last invocation, an add, copied the first declaration of project p.
AddedFrom(p) ==
    /\ last.outcome = "Added"
    /\ last.exit = ExitOk
    /\ last.chosen = <<[server |-> FirstDeclaration(last.pre, p, last.name),
                       source_project |-> p]>>
    /\ last.cwd \in DOMAIN doc.projects
    /\ last.name \in DOMAIN doc.projects[last.cwd].mcpServers
    /\ LET written == doc.projects[last.cwd].mcpServers[last.name]
           source == FirstDeclaration(last.pre, p, last.name)
       IN /\ written.command = source.command
          /\ written.url = source.url
          /\ written.env = source.env

----------------------------------------------------------------------------
(* Claims                                                                  *)

\* C1: add without --from, for a name not yet effective in the working directory
\* and declared somewhere: when the entry has one record or its records do not
\* differ, the record installed is the first in source_project order (that of
\* the smallest source_project), whatever the iteration order of the maps; when
\* it has several records that differ, the command fails with AmbiguousSource,
\* exits non-zero and leaves the registry unchanged.
NoHintSelection ==
    (SelectionRan /\ ~last.from.some) =>
        LET entries == last.all[last.name]
        IN IF Len(entries) = 1 \/ ~configs_differ(entries)
           THEN /\ AddedFrom(MinPath(Declaring(last.pre, last.name)))
                /\ last.chosen = <<entries[1]>>
           ELSE FailedWith("AmbiguousSource")

\* C1 witness: an add without --from copied the first of several equivalent records.
NoHintSelectionWitness ==
    /\ SelectionRan
    /\ ~last.from.some
    /\ last.outcome = "Added"
    /\ Cardinality(Declaring(last.pre, last.name)) >= 2

\* The projects declaring the name of the last invocation whose path contains
\* its --from pattern.
Matching ==
    {p \in Declaring(last.pre, last.name) : Contains(p, last.from.pattern)}

\* What add --from does once the name has records.
HintSelection ==
    IF Matching # {}
    THEN /\ AddedFrom(MinPath(Matching))
         /\ \A i \in DOMAIN last.all[last.name] :
               Contains(last.all[last.name][i].source_project, last.from.pattern)
                   => StrLeq(last.chosen[1].source_project,
                             last.all[last.name][i].source_project)
    ELSE FailedWith("NoMatchingSource")

\* C2 as stated: add --from on a non-empty entry copies the first record, in
\* source_project order, whose source_project contains the pattern, whether or not
\* the records differ; with no such record it fails with NoMatchingSource, exits
\* non-zero and leaves the registry unchanged.
HintSelectionAlways ==
    (last.cmd = "add" /\ last.from.some /\ last.name \in DOMAIN last.all)
        => HintSelection

\* C2 amended: the same, for a name not already effective in the working directory
\* (for one that is, add is a no-op note and selects nothing).
HintSelectionWhenNotEffective ==
    (SelectionRan /\ last.from.some) => HintSelection

\* C2 witness: the pattern picked one of several records that differ.
HintSelectionWitness ==
    /\ SelectionRan
    /\ last.from.some
    /\ last.outcome = "Added"
    /\ Len(last.all[last.name]) >= 2
    /\ configs_differ(last.all[last.name])
    /\ Cardinality(Matching) = 1

\* The entry of the last invocation's name in a fresh aggregation of the files as
\* they are now, for given iteration orders.
FreshEntries(order1, order2) ==
    LET all == collect_all_mcp_servers(regStatus, doc, overrides, order1, order2)
    IN IF last.name \in DOMAIN all THEN all[last.name] ELSE <<>>

FreshOrders == IterOrders(DOMAIN load_claude_json(regStatus, doc).projects)

\* Entry e is the record of the working directory that the last add installed:
\* command, url and environment of the source, the source's arguments with its
\* source_project replaced by the working directory.
InstalledFrom(e, source) ==
    /\ e.source_project = last.cwd
    /\ e.server.command = source.server.command
    /\ e.server.url = source.server.url
    /\ e.server.env = source.server.env
    /\ Len(e.server.args) = Len(source.server.args)
    /\ \A k \in DOMAIN source.server.args :
          e.server.args[k] =
              IF Contains(source.server.args[k], source.source_project)
              THEN Replace(source.server.args[k], source.source_project, last.cwd)
              ELSE source.server.args[k]

\* No argument of entry e contains the path of the source's project.
FreeOfOrigin(e, source) ==
    \A k \in DOMAIN e.server.args : ~Contains(e.server.args[k], source.source_project)

\* C3 as stated: after a successful add, a fresh aggregation holds, for the name,
\* a record of the working directory with the source's command, url and
\* environment and the source's arguments rewritten to the working directory,
\* none of which still contains the path of the source's project.
InstalledRewrittenAndFreeOfOrigin ==
    last.outcome = "Added" =>
        \A order1, order2 \in FreshOrders :
            LET entries == FreshEntries(order1, order2)
            IN \E i \in DOMAIN entries :
                  /\ InstalledFrom(entries[i], last.chosen[1])
                  /\ FreeOfOrigin(entries[i], last.chosen[1])

\* C3 amended: the same without the last condition: every occurrence of the
\* source's project path in an argument is replaced by the working directory, and
\* the result may again contain the source's path (it does when the working
\* directory's path contains it).
InstalledRewritten ==
    last.outcome = "Added" =>
        \A order1, order2 \in FreshOrders :
            LET entries == FreshEntries(order1, order2)
            IN \E i \in DOMAIN entries : InstalledFrom(entries[i], last.chosen[1])

\* C3 witness: an add rewrote an argument that held the source's project path.
InstalledRewrittenWitness ==
    /\ last.outcome = "Added"
    /\ \E k \in DOMAIN last.chosen[1].server.args :
          /\ Contains(last.chosen[1].server.args[k], last.chosen[1].source_project)
          /\ last.installed[1].args[k] # last.chosen[1].server.args[k]
          /\ Contains(last.installed[1].args[k], last.cwd)

\* Project entry new is entry old but for the server name, which add sets and
\* remove deletes.
SameButServer(old, new, name) ==
    /\ new.other = old.other
    /\ (DOMAIN new.mcpServers) \ {name} = (DOMAIN old.mcpServers) \ {name}
    /\ \A n \in (DOMAIN old.mcpServers) \ {name} : new.mcpServers[n] = old.mcpServers[n]
    /\ old.hasMcp => new.hasMcp

\* C4: a successful add or remove changes the registry document only at
\* projects[cwd].mcpServers[name]: the unknown top-level fields, every other
\* project's entry, the other fields and the other servers of the working
\* directory's entry are as before; add sets the server (creating the project
\* entry and its mcpServers when missing), remove deletes it.
OnlyTargetChanges ==
    last.wrote =>
        /\ doc.unknown = last.pre.unknown
        /\ (DOMAIN doc.projects) \ {last.cwd} = (DOMAIN last.pre.projects) \ {last.cwd}
        /\ \A p \in (DOMAIN last.pre.projects) \ {last.cwd} :
              doc.projects[p] = last.pre.projects[p]
        /\ last.cwd \in DOMAIN last.pre.projects =>
              /\ last.cwd \in DOMAIN doc.projects
              /\ SameButServer(last.pre.projects[last.cwd], doc.projects[last.cwd],
                               last.name)
        /\ last.cmd = "add" =>
              /\ last.cwd \in DOMAIN doc.projects
              /\ DOMAIN doc.projects[last.cwd].mcpServers
                    \subseteq {last.name} \cup
                        (IF last.cwd \in DOMAIN last.pre.projects
                         THEN DOMAIN last.pre.projects[last.cwd].mcpServers ELSE {})
              /\ last.name \in DOMAIN doc.projects[last.cwd].mcpServers
              /\ doc.projects[last.cwd].mcpServers[last.name] = ToValue(last.installed[1])
        /\ last.cmd = "remove" =>
              /\ doc.hasProjects = last.pre.hasProjects
              /\ last.cwd \in DOMAIN doc.projects
              /\ doc.projects[last.cwd].hasMcp = last.pre.projects[last.cwd].hasMcp
              /\ last.name \notin DOMAIN doc.projects[last.cwd].mcpServers

\* C4 witness: an add into a project entry that had another server and fields
\* of its own, next to another project's entry.
OnlyTargetChangesWitness ==
    /\ last.wrote
    /\ last.cmd = "add"
    /\ last.cwd \in DOMAIN last.pre.projects
    /\ "bar" \in DOMAIN last.pre.projects[last.cwd].mcpServers
    /\ Cardinality(DOMAIN last.pre.projects) >= 2

\* C6: remove of a name that the working directory's .mcp.json defines is refused:
\* nothing is written, the registry is as before, and the name is still effective
\* in the working directory. (No operation of the program writes a .mcp.json.)
OverrideRemoveRefused ==
    (last.cmd = "remove" /\ OverrideDeclares(last.cwd, last.name)) =>
        /\ last.outcome = "OverrideNotRemovable"
        /\ ~last.wrote
        /\ doc = last.pre
        /\ Effective(doc, last.cwd, last.name)
        /\ last.name \in DOMAIN get_current_project_mcp_servers(regStatus, doc,
                                                                overrides, last.cwd)

\* C6 witness: the refused remove of a name that the registry's entry of the
\* working directory declares too.
OverrideRemoveRefusedWitness ==
    /\ last.cmd = "remove"
    /\ OverrideDeclares(last.cwd, last.name)
    /\ RegistryDeclares(last.pre, last.cwd, last.name)
    /\ last.outcome = "OverrideNotRemovable"

\* C7: whatever the command, with the registry file missing or unparseable the
\* invocation ends with a non-zero exit status and writes nothing.
UnreadableRegistryIsFatal ==
    (last.cmd # "none" /\ regStatus # "ok") =>
        /\ last.exit # ExitOk
        /\ ~last.wrote

\* The entries of a name in the aggregation of the last invocation.
Aggregated(name) == IF name \in DOMAIN last.all THEN last.all[name] ELSE <<>>

\* The number of records the files hold for a name under project p.
DeclarationCount(d, p, name) ==
    (IF RegistryDeclares(d, p, name) THEN 1 ELSE 0)
    + (IF OverrideAggregated(d, p, name) THEN 1 ELSE 0)

\* C8: the aggregation holds, for every name, one record for each (source, project)
\* that declares it, over the registry's projects and the parseable .mcp.json of
\* those projects: two records for a project that declares it in both, each with
\* the server as declared; and each name's records are in non-decreasing order of
\* source_project.
AggregatorRetainsAndSorts ==
    last.cmd \in {"list", "show", "add"} =>
        /\ DOMAIN last.all = {n \in DataNames : Declaring(last.pre, n) # {}}
        /\ \A name \in DataNames :
              LET entries == Aggregated(name)
                  At(p) == {i \in DOMAIN entries : entries[i].source_project = p}
              IN /\ \A i \in DOMAIN entries : entries[i].source_project \in Projects
                 /\ \A p \in Projects :
                       /\ Cardinality(At(p)) = DeclarationCount(last.pre, p, name)
                       /\ RegistryDeclares(last.pre, p, name) =>
                             \E i \in At(p) :
                                 entries[i].server =
                                     ParseServer(last.pre.projects[p].mcpServers[name])
                       /\ OverrideAggregated(last.pre, p, name) =>
                             \E i \in At(p) :
                                 entries[i].server =
                                     ParseServer(overrides[p].mcpServers[name])
                       /\ DeclarationCount(last.pre, p, name) = 2 =>
                             \E i, j \in At(p) :
                                 /\ i # j
                                 /\ entries[i].server =
                                       ParseServer(last.pre.projects[p].mcpServers[name])
                                 /\ entries[j].server =
                                       ParseServer(overrides[p].mcpServers[name])
                 /\ \A i, j \in DOMAIN entries :
                       i < j => StrLeq(entries[i].source_project,
                                       entries[j].source_project)

\* C8 witness: a listing with a name declared by one project in both sources and
\* by another project.
AggregatorRetainsAndSortsWitness ==
    /\ last.cmd = "list"
    /\ \E p, q \in Projects :
          /\ p # q
          /\ DeclarationCount(last.pre, p, "foo") = 2
          /\ DeclarationCount(last.pre, q, "foo") >= 1
    /\ Len(Aggregated("foo")) >= 3

\* C9: an add run again from the same project for the same name, right after an
\* add that installed it, is a no-op note: it exits with status zero, writes
\* nothing and leaves the registry as the first run left it, with one record of
\* the name for the working directory.
SecondAddIsNoOp ==
    [][(/\ Idle
        /\ lastWrite.cmd = "add"
        /\ last'.cmd = "add"
        /\ last'.name = lastWrite.name
        /\ last'.cwd = lastWrite.cwd)
       => (/\ last'.outcome = "AlreadyEnabled"
           /\ last'.exit = ExitOk
           /\ ~last'.wrote
           /\ doc' = doc
           /\ writes' = writes
           /\ last'.name \in DOMAIN last'.all
           /\ Cardinality({i \in DOMAIN last'.all[last'.name] :
                 last'.all[last'.name][i].source_project = last'.cwd}) = 1)]_vars

\* C9 witness: the second run of an add, reported as already enabled.
SecondAddIsNoOpWitness ==
    /\ last.cmd = "add"
    /\ last.outcome = "AlreadyEnabled"
    /\ lastWrite = [cmd |-> "add", name |-> last.name, cwd |-> last.cwd]
    /\ doc = last.pre

\* Entries e1 and e2, of different projects, are alike in command, url,
\* environment and every argument but argument k, which in each is exactly that
\* entry's own source_project.
AlikeButOwnPath(e1, e2, k) ==
    /\ e1.source_project # e2.source_project
    /\ e1.server.command = e2.server.command
    /\ e1.server.url = e2.server.url
    /\ e1.server.env = e2.server.env
    /\ Len(e1.server.args) = Len(e2.server.args)
    /\ k \in DOMAIN e1.server.args
    /\ e1.server.args[k] = e1.source_project
    /\ e2.server.args[k] = e2.source_project
    /\ \A j \in (DOMAIN e1.server.args) \ {k} : e1.server.args[j] = e2.server.args[j]

\* No argument of e1 other than argument k contains the source_project of e1 or e2.
OthersPathFree(e1, e2, k) ==
    \A j \in (DOMAIN e1.server.args) \ {k} :
        /\ ~Contains(e1.server.args[j], e1.source_project)
        /\ ~Contains(e1.server.args[j], e2.source_project)

\* C5 as stated: two records of one name, of different projects, alike but for one
\* argument that in each is exactly the record's own source_project, do not differ.
OwnPathPairsDoNotDiffer ==
    (pair.compared /\ \E k \in 1..MaxArgs :
                          AlikeButOwnPath(pair.entries[1], pair.entries[2], k))
        => ~pair.differ

\* C5 amended: they do not differ when, besides, none of the arguments they share
\* contains the source_project of either record.
PathFreeOwnPathPairsDoNotDiffer ==
    (pair.compared /\ \E k \in 1..MaxArgs :
                          /\ AlikeButOwnPath(pair.entries[1], pair.entries[2], k)
                          /\ OthersPathFree(pair.entries[1], pair.entries[2], k))
        => ~pair.differ

\* C5 witness: such a pair, with a shared argument next to the own paths, compared.
PathFreeOwnPathPairsWitness ==
    /\ pair.compared
    /\ ~pair.differ
    /\ Len(pair.entries[1].server.args) = 2
    /\ \E k \in 1..MaxArgs :
          /\ AlikeButOwnPath(pair.entries[1], pair.entries[2], k)
          /\ OthersPathFree(pair.entries[1], pair.entries[2], k)

\* Invocation i reported success.
Succeeded(i) == race.outcome[i] \in {"Added", "Removed"}

\* The change of invocation i is in the registry.
ChangePresent(i) ==
    LET c == race.cmd[i]
    IN /\ c.cwd \in DOMAIN doc.projects
       /\ IF c.cmd = "add"
          THEN /\ c.name \in DOMAIN doc.projects[c.cwd].mcpServers
               /\ doc.projects[c.cwd].mcpServers[c.name] = race.server[i]
          ELSE c.name \notin DOMAIN doc.projects[c.cwd].mcpServers

\* C10: of two invocations that each change the registry, at different places, and
\* both report success, the registry holds both changes when one ran after the
\* other had ended; an interleaving of their reads and writes in which it holds
\* only one of them is the witness.
SerialRunsKeepBothChanges ==
    (race.pc = <<"done", "done">> /\ Succeeded(1) /\ Succeeded(2)
     /\ (race.afterOther[1] \/ race.afterOther[2]))
        => (ChangePresent(1) /\ ChangePresent(2))

\* C10 witness: both invocations reported success and the registry lacks the
\* change of one of them.
LostUpdate ==
    /\ race.pc = <<"done", "done">>
    /\ Succeeded(1)
    /\ Succeeded(2)
    /\ ~(ChangePresent(1) /\ ChangePresent(2))

\* C11: installing never introduces a divergence: when the records of a name did
\* not differ before a successful add without --from, the records of the name in
\* a fresh aggregation after the add, the installed one among them, do not differ
\* either, whatever the iteration order of the maps.
InstallKeepsAgreement ==
    (last.outcome = "Added" /\ ~last.from.some /\ ~configs_differ(last.all[last.name]))
        => \A order1, order2 \in FreshOrders :
               ~configs_differ(FreshEntries(order1, order2))

\* Every argument of entry e either contains neither the path of e's project nor
\* path dest, or is the path of e's project followed by text containing neither.
PathOnlyLeads(e, dest) ==
    \A k \in DOMAIN e.server.args :
        LET a == e.server.args[k]
            n == Len(e.source_project)
            rest == SubSeq(a, n + 1, Len(a))
        IN \/ ~Contains(a, e.source_project) /\ ~Contains(a, dest)
           \/ /\ MatchAt(a, e.source_project, 1)
              /\ ~Contains(rest, e.source_project)
              /\ ~Contains(rest, dest)

\* C11 where it does hold: the same, for a source record whose arguments hold its
\* project's path at their start only and the working directory's path nowhere.
InstallKeepsAgreementWhenPathOnlyLeads ==
    (/\ last.outcome = "Added"
     /\ ~last.from.some
     /\ ~configs_differ(last.all[last.name])
     /\ PathOnlyLeads(last.chosen[1], last.cwd))
        => \A order1, order2 \in FreshOrders :
               ~configs_differ(FreshEntries(order1, order2))

\* An add without --from that installed next to records that did not differ, from
\* a source whose arguments are as above, one of them holding the path.
InstallKeepsAgreementWitness ==
    /\ last.outcome = "Added"
    /\ ~last.from.some
    /\ Len(last.all[last.name]) >= 2
    /\ PathOnlyLeads(last.chosen[1], last.cwd)
    /\ \E k \in DOMAIN last.chosen[1].server.args :
          Contains(last.chosen[1].server.args[k], last.chosen[1].source_project)

\* C11, the case that goes wrong: a successful add without --from, next to records
\* that did not differ, after which the records of the name differ, the installed
\* record being literally equal to its source.
InstallIntroducedDivergence ==
    /\ last.outcome = "Added"
    /\ ~last.from.some
    /\ ~configs_differ(last.all[last.name])
    /\ last.installed = <<last.chosen[1].server>>
    /\ \E order1, order2 \in FreshOrders :
          configs_differ(FreshEntries(order1, order2))

====
